---------------------------- MODULE Spec2Model ----------------------------
(***************************************************************************)
(* A model of the eoe crate (src/src/lib.rs): the five write-once registry *)
(* slots, the diagnostic printer and the exit_on_error / quit_on_error     *)
(* operations, run by the threads of a host process that share the slots   *)
(* and the standard error stream.                                          *)
(***************************************************************************)
EXTENDS Integers, Sequences, FiniteSets, TLC

(* ------------------------------ bounds -------------------------------- *)

\* operations the host threads start, in total
MaxOps == 2
\* longest error chain (headline included)
MaxChain == 3
\* distinct custom values a host may try to store in a slot
MaxVal == 2

(* --------------------------- program constants ------------------------ *)

\* lib.rs:126, lib.rs:149  exit(1)
EXIT_STATUS == 1
\* status of a process whose main thread unwinds out of panic! (lib.rs:271)
PANIC_STATUS == 101
\* status of a process killed by SIGABRT when panic! aborts (lib.rs:271)
ABORT_STATUS == 134

(* ------------------------------ threads ------------------------------- *)

MainThread == "main"
Threads == {"main", "worker"}
NoThread == "none"

(* ------------------------------ values -------------------------------- *)

\* Style::new(): no styling
Plain == <<"plain", 0>>
RedBold == <<"red_bold", 0>>
NoText == <<"", 0>>
CustomStyle(k) == <<"custom", k>>
CustomText(s, k) == <<s, k>>
Msg(k) == <<"msg", k>>

\* struct Segment<T> { style, value }
Segment(style, value) == [style |-> style, value |-> value]

\* the five statics, lib.rs:83-91
Slots == {"ERROR", "CAUSED_BY", "SEP", "MESSAGE_STYLE", "MESSAGE_ON_NONE"}

\* impl Fallback: the built-in defaults.  MESSAGE_STYLE holds a bare Style
\* and MESSAGE_ON_NONE a bare &str; the component the slot's type does not
\* have is fixed.
Fallback(s) ==
  CASE s = "ERROR"           -> Segment(RedBold, <<"error", 0>>)
    [] s = "CAUSED_BY"       -> Segment(RedBold, <<"caused by", 0>>)
    [] s = "SEP"             -> Segment(RedBold, <<": ", 0>>)
    [] s = "MESSAGE_STYLE"   -> Segment(Plain, NoText)
    [] s = "MESSAGE_ON_NONE" -> Segment(Plain, <<"unexpected None", 0>>)

\* the values a host can pass to SLOT.set(..)
HostValue(s, k) ==
  CASE s = "MESSAGE_STYLE"   -> Segment(CustomStyle(k), NoText)
    [] s = "MESSAGE_ON_NONE" -> Segment(Plain, CustomText(s, k))
    [] OTHER                 -> Segment(CustomStyle(k), CustomText(s, k))

\* what OnceLock::get returns for a cell that is not initialised
Unset == Segment(<<"unset", 0>>, <<"unset", 0>>)

\* the error chains: m1 is the headline, m2..mn its causes, outermost first
Chains == {[i \in 1..n |-> Msg(i)] : n \in 1..MaxChain}

\* the receivers of exit_on_error / quit_on_error
NoInput == [kind |-> "none", value |-> 0, chain |-> <<>>]
Inputs ==
  {[kind |-> "Ok", value |-> v, chain |-> <<>>] : v \in 1..MaxVal} \cup
  {[kind |-> "Some", value |-> v, chain |-> <<>>] : v \in 1..MaxVal} \cup
  {[kind |-> "None", value |-> 0, chain |-> <<>>]} \cup
  {[kind |-> "Err", value |-> 0, chain |-> c] : c \in Chains}


(* ------------------------------- state -------------------------------- *)

VARIABLES
  reg,            \* the five OnceLock statics: state of the Once and the cell
  lock,           \* the thread holding the lock of the standard error stream
  err,            \* what has been written to the standard error stream
  pc,             \* where each thread is
  self,           \* the receiver of the call a thread is in (or has returned from)
  local,          \* the locals of the call a thread is in
  ret,            \* the value the thread's last call returned
  ops,            \* operations the host threads have started
  process,        \* whether the process runs, and how it ended
  color,          \* whether the error stream supports styled output
  panic_strategy  \* how the build treats panic!: "unwind" or "abort"

vars == <<reg, lock, err, pc, self, local, ret, ops, process, color,
          panic_strategy>>

NoValue == 0
NoLocal == [via |-> "none", slot |-> "none", arg |-> Unset, set |-> "none",
            label |-> Unset, sep |-> Unset, style |-> Plain,
            message |-> NoText, i |-> 0]
Running == [status |-> "running", code |-> 0, by |-> NoThread]

Init ==
  /\ reg = [s \in Slots |->
              [state |-> "incomplete", by |-> NoThread, how |-> "none", val |-> Unset]]
  /\ lock = NoThread
  /\ err = <<>>
  /\ pc = [t \in Threads |-> "idle"]
  /\ self = [t \in Threads |-> NoInput]
  /\ local = [t \in Threads |-> NoLocal]
  /\ ret = [t \in Threads |-> NoValue]
  /\ ops = 0
  /\ process = Running
  /\ color \in BOOLEAN
  /\ panic_strategy \in {"unwind", "abort"}

(* ------------------------------ OnceLock ------------------------------ *)

\* OnceLock::get: the cell's value once the Once is complete
OnceGet(s) == IF reg[s].state = "complete" THEN reg[s].val ELSE Unset

\* the Once goes INCOMPLETE -> RUNNING for the thread that runs the
\* initialiser (`how' records whether set or get_or_init started it)
OnceBegin(s, t, v, how) ==
  [reg EXCEPT ![s] = [state |-> "running", by |-> t, how |-> how, val |-> v]]

\* the initialiser has returned: the cell is written and the Once is COMPLETE
OnceComplete(s) ==
  [reg EXCEPT ![s] = [state |-> "complete", by |-> NoThread, how |-> reg[s].how,
                      val |-> reg[s].val]]

\* what a slot of its type hands out: a Segment, the Style of MESSAGE_STYLE
\* or the &str of MESSAGE_ON_NONE
Typed(s, v) ==
  CASE s = "MESSAGE_STYLE"   -> v.style
    [] s = "MESSAGE_ON_NONE" -> v.value
    [] OTHER                 -> v

\* SLOT.get_or_init(|| Fallback::SLOT) by thread t: the thread binds the
\* resolved value to its local `field' and goes on to `next'.  A thread that
\* finds another thread running the initialiser waits.
GetOrInit(t, s, field, next) ==
  \/ /\ reg[s].state = "complete"
     /\ local' = [local EXCEPT ![t][field] = Typed(s, reg[s].val)]
     /\ pc' = [pc EXCEPT ![t] = next]
     /\ UNCHANGED reg
  \/ /\ reg[s].state = "incomplete"
     /\ reg' = OnceBegin(s, t, Fallback(s), "get_or_init")
     /\ UNCHANGED <<local, pc>>
  \/ /\ reg[s].state = "running"
     /\ reg[s].by = t
     /\ reg' = OnceComplete(s)
     /\ local' = [local EXCEPT ![t][field] = Typed(s, reg[s].val)]
     /\ pc' = [pc EXCEPT ![t] = next]

(* ----------------------------- the host ------------------------------- *)

Alive(t) == process.status = "running" /\ pc[t] # "panicked"

\* a host thread is free to start its next operation
Ready(t) == Alive(t) /\ pc[t] = "idle" /\ ops < MaxOps

\* set as a plain store would behave: a set on an initialised slot replaces
\* its value
set_overwrites(t) ==
  /\ Ready(t)
  /\ \E s \in Slots, k \in 1..MaxVal :
       \/ /\ reg[s].state = "complete"
          /\ reg' = [reg EXCEPT ![s].val = HostValue(s, k), ![s].how = "set"]
          /\ local' = [local EXCEPT ![t] = [NoLocal EXCEPT !.slot = s,
                                 !.arg = HostValue(s, k), !.set = "Ok"]]
          /\ UNCHANGED pc
       \/ /\ reg[s].state = "incomplete"
          /\ reg' = OnceBegin(s, t, HostValue(s, k), "set")
          /\ pc' = [pc EXCEPT ![t] = "set_init"]
          /\ local' = [local EXCEPT ![t] = [NoLocal EXCEPT !.slot = s,
                                 !.arg = HostValue(s, k)]]
  /\ ops' = ops + 1
  /\ self' = [self EXCEPT ![t] = NoInput]
  /\ ret' = [ret EXCEPT ![t] = NoValue]
  /\ UNCHANGED <<lock, err, process, color, panic_strategy>>

\* set without the Once's exclusion: a thread that finds the slot not yet
\* complete starts to initialise it, whoever else is doing so
set_unguarded(t) ==
  /\ Ready(t)
  /\ \E s \in Slots, k \in 1..MaxVal :
       \/ /\ reg[s].state = "complete"
          /\ local' = [local EXCEPT ![t] = [NoLocal EXCEPT !.slot = s,
                                 !.arg = HostValue(s, k), !.set = "Err"]]
          /\ UNCHANGED <<reg, pc>>
       \/ /\ reg[s].state # "complete"
          /\ reg' = OnceBegin(s, t, HostValue(s, k), "set")
          /\ pc' = [pc EXCEPT ![t] = "set_init"]
          /\ local' = [local EXCEPT ![t] = [NoLocal EXCEPT !.slot = s,
                                 !.arg = HostValue(s, k)]]
  /\ ops' = ops + 1
  /\ self' = [self EXCEPT ![t] = NoInput]
  /\ ret' = [ret EXCEPT ![t] = NoValue]
  /\ UNCHANGED <<lock, err, process, color, panic_strategy>>

\* `let _ = eoe::SLOT.set(value);': the call finds the cell initialised and
\* returns Err(value), or starts to initialise it
set(t) ==
  /\ Ready(t)
  /\ \E s \in Slots, k \in 1..MaxVal :
       \/ /\ reg[s].state = "complete"
          /\ local' = [local EXCEPT ![t] = [NoLocal EXCEPT !.slot = s,
                                 !.arg = HostValue(s, k), !.set = "Err"]]
          /\ UNCHANGED <<reg, pc>>
       \/ /\ reg[s].state = "incomplete"
          /\ reg' = OnceBegin(s, t, HostValue(s, k), "set")
          /\ pc' = [pc EXCEPT ![t] = "set_init"]
          /\ local' = [local EXCEPT ![t] = [NoLocal EXCEPT !.slot = s,
                                 !.arg = HostValue(s, k)]]
  /\ ops' = ops + 1
  /\ self' = [self EXCEPT ![t] = NoInput]
  /\ ret' = [ret EXCEPT ![t] = NoValue]
  /\ UNCHANGED <<lock, err, process, color, panic_strategy>>

\* the initialiser of set returns: the value is stored and set returns Ok(())
set_init(t) ==
  /\ Alive(t)
  /\ pc[t] = "set_init"
  /\ reg' = OnceComplete(local[t].slot)
  /\ pc' = [pc EXCEPT ![t] = "idle"]
  /\ local' = [local EXCEPT ![t].set = "Ok"]
  /\ UNCHANGED <<lock, err, self, ret, ops, process, color, panic_strategy>>

\* a line on the error stream: who wrote it, through which code, the
\* displayed segments that reached the stream and whether the line break did
Line(t, src, segs, nl) == [by |-> t, src |-> src, segs |-> segs, nl |-> nl]

\* Segment::display: the style is applied only if the stream supports it
display(seg) == IF color THEN seg ELSE Segment(Plain, seg.value)

\* panic!: the build either aborts the process or unwinds the thread, which
\* drops the guard of the error stream; unwinding out of the main thread
\* ends the process
Panic(t) ==
  /\ pc' = [pc EXCEPT ![t] = "panicked"]
  /\ IF panic_strategy = "abort"
       THEN /\ process' = [status |-> "aborted", code |-> ABORT_STATUS, by |-> t]
            /\ UNCHANGED lock
       ELSE /\ lock' = IF lock = t THEN NoThread ELSE lock
            /\ process' = IF t = MainThread
                            THEN [status |-> "panicked", code |-> PANIC_STATUS, by |-> t]
                            ELSE process

\* the segments of one formatted line, written piece by piece to the
\* unbuffered stream: all of them and the line break, or, when a write
\* fails, the pieces written before it
Written(line, n) == SubSeq(line, 1, n)

\* the error! macro of macros.rs: eprintln! takes the stream's lock for one line
host_write(t) ==
  /\ Ready(t)
  /\ lock = NoThread
  /\ LET line == <<Segment(RedBold, <<"error", 0>>), Segment(Plain, <<": ", 0>>),
                   Segment(Plain, Msg(1))>> IN
       \/ /\ err' = Append(err, Line(t, "host", line, TRUE))
          /\ UNCHANGED <<pc, process, lock>>
       \/ /\ \E n \in 0..Len(line) :
               err' = IF n = 0 THEN err
                      ELSE Append(err, Line(t, "host", Written(line, n), FALSE))
          /\ Panic(t)
  /\ ops' = ops + 1
  /\ self' = [self EXCEPT ![t] = NoInput]
  /\ ret' = [ret EXCEPT ![t] = NoValue]
  /\ local' = [local EXCEPT ![t] = NoLocal]
  /\ UNCHANGED <<reg, color, panic_strategy>>

\* the host calls x.exit_on_error() or x.quit_on_error()
call(t) ==
  /\ Ready(t)
  /\ \E x \in Inputs, via \in {"exit_on_error", "quit_on_error"} :
       /\ self' = [self EXCEPT ![t] = x]
       /\ local' = [local EXCEPT ![t] = [NoLocal EXCEPT !.via = via]]
       /\ pc' = [pc EXCEPT ![t] = via]
  /\ ops' = ops + 1
  /\ ret' = [ret EXCEPT ![t] = NoValue]
  /\ UNCHANGED <<reg, lock, err, process, color, panic_strategy>>

(* ------------------------ exit_on_error, quit_on_error ---------------- *)

\* <Result<T, E> as QuitOnError<T>>::quit_on_error: self.exit_on_error()
quit_on_error_Result(t) ==
  /\ Alive(t)
  /\ pc[t] = "quit_on_error"
  /\ self[t].kind \in {"Ok", "Err"}
  /\ pc' = [pc EXCEPT ![t] = "exit_on_error"]
  /\ UNCHANGED <<reg, lock, err, self, local, ret, ops, process, color,
                 panic_strategy>>

\* quit_on_error for Option with a body of its own that exits on None
\* without printing
quit_on_error_Option_own(t) ==
  /\ Alive(t)
  /\ pc[t] = "quit_on_error"
  /\ self[t].kind \in {"Some", "None"}
  /\ pc' = [pc EXCEPT ![t] = IF self[t].kind = "None" THEN "exit" ELSE "exit_on_error"]
  /\ UNCHANGED <<reg, lock, err, self, local, ret, ops, process, color,
                 panic_strategy>>

\* <Option<T> as QuitOnError<T>>::quit_on_error: self.exit_on_error()
quit_on_error_Option(t) ==
  /\ Alive(t)
  /\ pc[t] = "quit_on_error"
  /\ self[t].kind \in {"Some", "None"}
  /\ pc' = [pc EXCEPT ![t] = "exit_on_error"]
  /\ UNCHANGED <<reg, lock, err, self, local, ret, ops, process, color,
                 panic_strategy>>

\* exit_on_error for Result without skip(1): the causes start at the head
\* of the chain
exit_on_error_Result_no_skip(t) ==
  /\ Alive(t)
  /\ pc[t] = "exit_on_error"
  /\ \/ /\ self[t].kind = "Ok"
        /\ ret' = [ret EXCEPT ![t] = self[t].value]
        /\ pc' = [pc EXCEPT ![t] = "idle"]
        /\ UNCHANGED <<lock, local>>
     \/ /\ self[t].kind = "Err"
        /\ lock = NoThread
        /\ lock' = t
        /\ local' = [local EXCEPT ![t].message = self[t].chain[1], ![t].i = 0]
        /\ pc' = [pc EXCEPT ![t] = "print_error"]
        /\ UNCHANGED ret
  /\ UNCHANGED <<reg, err, self, ops, process, color, panic_strategy>>

\* exit_on_error for Result that prints without the lock of the stream
exit_on_error_Result_no_guard(t) ==
  /\ Alive(t)
  /\ pc[t] = "exit_on_error"
  /\ \/ /\ self[t].kind = "Ok"
        /\ ret' = [ret EXCEPT ![t] = self[t].value]
        /\ pc' = [pc EXCEPT ![t] = "idle"]
        /\ UNCHANGED local
     \/ /\ self[t].kind = "Err"
        /\ local' = [local EXCEPT ![t].message = self[t].chain[1], ![t].i = 1]
        /\ pc' = [pc EXCEPT ![t] = "print_error"]
        /\ UNCHANGED ret
  /\ UNCHANGED <<reg, lock, err, self, ops, process, color, panic_strategy>>

\* <Result<T, E> as ExitOnError<T>>::exit_on_error, `match self': Ok(value)
\* returns value; Err(error) converts the error, takes the lock of the error
\* stream (waiting for it) and calls print_error with the error, whose Display
\* is the head of its chain
exit_on_error_Result(t) ==
  /\ Alive(t)
  /\ pc[t] = "exit_on_error"
  /\ \/ /\ self[t].kind = "Ok"
        /\ ret' = [ret EXCEPT ![t] = self[t].value]
        /\ pc' = [pc EXCEPT ![t] = "idle"]
        /\ UNCHANGED <<lock, local>>
     \/ /\ self[t].kind = "Err"
        /\ lock = NoThread
        /\ lock' = t
        /\ local' = [local EXCEPT ![t].message = self[t].chain[1], ![t].i = 1]
        /\ pc' = [pc EXCEPT ![t] = "print_error"]
        /\ UNCHANGED ret
  /\ UNCHANGED <<reg, err, self, ops, process, color, panic_strategy>>

\* exit_on_error for Option whose Some arm falls into the None arm
exit_on_error_Option_one_arm(t) ==
  /\ Alive(t)
  /\ pc[t] = "exit_on_error"
  /\ self[t].kind \in {"Some", "None"}
  /\ lock = NoThread
  /\ lock' = t
  /\ pc' = [pc EXCEPT ![t] = "message_on_none"]
  /\ UNCHANGED <<reg, err, self, local, ret, ops, process, color, panic_strategy>>

\* <Option<T> as ExitOnError<T>>::exit_on_error, `match self': Some(value)
\* returns value; None takes the lock of the error stream
exit_on_error_Option(t) ==
  /\ Alive(t)
  /\ pc[t] = "exit_on_error"
  /\ \/ /\ self[t].kind = "Some"
        /\ ret' = [ret EXCEPT ![t] = self[t].value]
        /\ pc' = [pc EXCEPT ![t] = "idle"]
        /\ UNCHANGED lock
     \/ /\ self[t].kind = "None"
        /\ lock = NoThread
        /\ lock' = t
        /\ pc' = [pc EXCEPT ![t] = "message_on_none"]
        /\ UNCHANGED ret
  /\ UNCHANGED <<reg, err, self, local, ops, process, color, panic_strategy>>

\* the None arm printing the built-in message whatever the slot holds
message_on_none_builtin(t) ==
  /\ Alive(t)
  /\ pc[t] = "message_on_none"
  /\ local' = [local EXCEPT ![t].message = Fallback("MESSAGE_ON_NONE").value]
  /\ pc' = [pc EXCEPT ![t] = "print_error"]
  /\ UNCHANGED <<reg, lock, err, self, ret, ops, process, color, panic_strategy>>

\* let message = MESSAGE_ON_NONE.get_or_init(|| Fallback::MESSAGE_ON_NONE);
\* print_error(&mut stderr, message)
message_on_none(t) ==
  /\ Alive(t)
  /\ pc[t] = "message_on_none"
  /\ GetOrInit(t, "MESSAGE_ON_NONE", "message", "print_error")
  /\ UNCHANGED <<lock, err, self, ret, ops, process, color, panic_strategy>>

\* print_error: let label = ERROR.get_or_init(|| Fallback::ERROR); print(..)
print_error(t) ==
  /\ Alive(t)
  /\ pc[t] = "print_error"
  /\ GetOrInit(t, "ERROR", "label", "print")
  /\ UNCHANGED <<lock, err, self, ret, ops, process, color, panic_strategy>>

\* print_caused_by: let label = CAUSED_BY.get_or_init(|| Fallback::CAUSED_BY)
print_caused_by(t) ==
  /\ Alive(t)
  /\ pc[t] = "print_caused_by"
  /\ GetOrInit(t, "CAUSED_BY", "label", "print")
  /\ UNCHANGED <<lock, err, self, ret, ops, process, color, panic_strategy>>

\* print: let sep = SEP.get_or_init(|| Fallback::SEP)
print(t) ==
  /\ Alive(t)
  /\ pc[t] = "print"
  /\ GetOrInit(t, "SEP", "sep", "message_style")
  /\ UNCHANGED <<lock, err, self, ret, ops, process, color, panic_strategy>>

\* print: Segment { style: *MESSAGE_STYLE.get_or_init(..), value: message }
message_style(t) ==
  /\ Alive(t)
  /\ pc[t] = "message_style"
  /\ GetOrInit(t, "MESSAGE_STYLE", "style", "writeln")
  /\ UNCHANGED <<lock, err, self, ret, ops, process, color, panic_strategy>>

\* print: writeln!(stderr, "{}{}{}", label, sep, message); a failed write
\* panics.  After the line print returns to its caller: the Err arm goes on
\* with the causes, the None arm exits.
writeln(t) ==
  /\ Alive(t)
  /\ pc[t] = "writeln"
  /\ LET line == <<display(local[t].label), display(local[t].sep),
                   display(Segment(local[t].style, local[t].message))>> IN
       \/ /\ err' = Append(err, Line(t, "eoe", line, TRUE))
          /\ pc' = [pc EXCEPT ![t] = IF self[t].kind = "Err" THEN "for_each" ELSE "exit"]
          /\ UNCHANGED <<lock, process>>
       \/ /\ \E n \in 0..Len(line) :
               err' = IF n = 0 THEN err
                      ELSE Append(err, Line(t, "eoe", Written(line, n), FALSE))
          /\ Panic(t)
  /\ UNCHANGED <<reg, self, local, ret, ops, color, panic_strategy>>

\* error.chain().skip(1).for_each(|cause| print_caused_by(&mut stderr, cause))
for_each(t) ==
  /\ Alive(t)
  /\ pc[t] = "for_each"
  /\ IF local[t].i < Len(self[t].chain)
       THEN /\ local' = [local EXCEPT ![t].i = @ + 1,
                                      ![t].message = self[t].chain[local[t].i + 1]]
            /\ pc' = [pc EXCEPT ![t] = "print_caused_by"]
       ELSE /\ pc' = [pc EXCEPT ![t] = "exit"]
            /\ UNCHANGED local
  /\ UNCHANGED <<reg, lock, err, self, ret, ops, process, color, panic_strategy>>

\* exit(1) after the guard of the error stream has been dropped
exit_drops_guard(t) ==
  /\ Alive(t)
  /\ pc[t] = "exit"
  /\ lock' = NoThread
  /\ process' = [status |-> "exited", code |-> EXIT_STATUS, by |-> t]
  /\ pc' = [pc EXCEPT ![t] = "exited"]
  /\ UNCHANGED <<reg, err, self, local, ret, ops, color, panic_strategy>>

\* exit(1): the process ends; the guard of the error stream is a local of
\* the arm that exit never leaves
exit(t) ==
  /\ Alive(t)
  /\ pc[t] = "exit"
  /\ process' = [status |-> "exited", code |-> EXIT_STATUS, by |-> t]
  /\ pc' = [pc EXCEPT ![t] = "exited"]
  /\ UNCHANGED <<reg, lock, err, self, local, ret, ops, color, panic_strategy>>

Next ==
  \/ \E t \in Threads : set(t)
  \/ \E t \in Threads : set_init(t)
  \/ \E t \in Threads : host_write(t)
  \/ \E t \in Threads : call(t)
  \/ \E t \in Threads : quit_on_error_Result(t)
  \/ \E t \in Threads : quit_on_error_Option(t)
  \/ \E t \in Threads : exit_on_error_Result(t)
  \/ \E t \in Threads : exit_on_error_Option(t)
  \/ \E t \in Threads : message_on_none(t)
  \/ \E t \in Threads : print_error(t)
  \/ \E t \in Threads : print_caused_by(t)
  \/ \E t \in Threads : print(t)
  \/ \E t \in Threads : message_style(t)
  \/ \E t \in Threads : writeln(t)
  \/ \E t \in Threads : for_each(t)
  \/ \E t \in Threads : exit(t)

Spec == Init /\ [][Next]_vars

(* ------------------------------ properties ---------------------------- *)

\* the lines (whole or cut short) a thread's exit_on_error has put on the stream
EoeLines(t) == SelectSeq(err, LAMBDA l : l.by = t /\ l.src = "eoe")

\* the line `<label><separator><message>' as the registry renders it
Rendered(label, message) ==
  <<display(OnceGet(label)), display(OnceGet("SEP")),
    display(Segment(OnceGet("MESSAGE_STYLE").style, message))>>

\* the label of the i-th line of a call (a call on None prints the first only)
LabelOf(i) == IF i <= 1 THEN "ERROR" ELSE "CAUSED_BY"

\* the process was ended by exit(1) called by t
ExitedBy(t) == process.status = "exited" /\ process.by = t

\* C1: a call on Err with chain m1..mn emits, in order, one error-labelled
\* line with m1 and one caused-by line for each of m2..mn, nothing else, and
\* only after the last of them ends the process with status 1; it never
\* returns.  (Only a line whose write failed can be cut short, and it is
\* the last one.)
C1_ErrChainPrinted ==
  \A t \in Threads :
    self[t].kind = "Err" =>
      LET c == self[t].chain
          lines == EoeLines(t)
          n == Len(lines)
      IN  /\ pc[t] # "idle"
          /\ ret[t] = NoValue
          /\ n <= Len(c)
          /\ \A i \in 1..n :
               /\ SubSeq(Rendered(LabelOf(i), c[i]), 1, Len(lines[i].segs)) = lines[i].segs
               /\ lines[i].nl => Len(lines[i].segs) = 3
               /\ ~lines[i].nl => i = n /\ pc[t] = "panicked"
          /\ pc[t] \in {"exit", "exited"} <=>
               (n = Len(c) /\ lines[n].nl /\ local[t].i = Len(c) /\ pc[t] # "for_each")
          /\ pc[t] = "exited" <=> ExitedBy(t)
          /\ ExitedBy(t) => process.code = 1

\* C1 witness: a call on a chain of three messages has printed its three
\* lines and exited
C1_Witness ==
  \E t \in Threads :
    /\ self[t].kind = "Err"
    /\ Len(self[t].chain) = 3
    /\ pc[t] = "exited"
    /\ Len(EoeLines(t)) = 3
    /\ process.code = 1

\* C2: a call on Ok(v) or Some(v) returns v, writes nothing and ends nothing
C2_SuccessReturnsValue ==
  \A t \in Threads :
    self[t].kind \in {"Ok", "Some"} =>
      /\ pc[t] \in {"quit_on_error", "exit_on_error", "idle"}
      /\ pc[t] = "idle" => ret[t] = self[t].value
      /\ pc[t] # "idle" => ret[t] = NoValue
      /\ EoeLines(t) = <<>>
      /\ lock # t
      /\ process.by # t

\* C2 witness: both a Result and an Option call have returned their values
C2_Witness ==
  \E t, u \in Threads :
    /\ pc[t] = "idle" /\ self[t].kind = "Ok" /\ ret[t] = 2
    /\ pc[u] = "idle" /\ self[u].kind = "Some" /\ ret[u] = 1
    /\ local[u].via = "quit_on_error"
    /\ err = <<>>
    /\ process.status = "running"

\* C3: a call on None emits exactly one line, with the error label, whose
\* message is the value set in MESSAGE_ON_NONE if one was set and
\* "unexpected None" otherwise, and then ends the process with status 1
C3_NonePrinted ==
  \A t \in Threads :
    self[t].kind = "None" =>
      LET lines == EoeLines(t)
          n == Len(lines)
          slot == reg["MESSAGE_ON_NONE"]
          message == IF slot.how = "set" THEN slot.val.value
                     ELSE <<"unexpected None", 0>>
      IN  /\ pc[t] \notin {"idle", "print_caused_by", "for_each"}
          /\ ret[t] = NoValue
          /\ n <= 1
          /\ n = 1 =>
               /\ slot.state = "complete"
               /\ slot.how = "set" => slot.val.value \in {CustomText("MESSAGE_ON_NONE", k) : k \in 1..MaxVal}
               /\ SubSeq(Rendered("ERROR", message), 1, Len(lines[1].segs)) = lines[1].segs
               /\ lines[1].nl => Len(lines[1].segs) = 3
               /\ ~lines[1].nl => pc[t] = "panicked"
          /\ pc[t] \in {"exit", "exited"} <=> (n = 1 /\ lines[1].nl)
          /\ pc[t] = "exited" <=> ExitedBy(t)
          /\ ExitedBy(t) => process.code = 1

\* C3 witness: with nothing configured, None printed the default message
\* and the process exited
C3_Witness ==
  \E t \in Threads :
    /\ self[t].kind = "None"
    /\ pc[t] = "exited"
    /\ ~color
    /\ err = <<Line(t, "eoe", <<Segment(Plain, <<"error", 0>>), Segment(Plain, <<": ", 0>>),
                                Segment(Plain, <<"unexpected None", 0>>)>>, TRUE)>>
    /\ process.code = 1

\* C4: a slot's observed value changes at most once, from unset to one
\* value: the value of the first successful set, or the built-in default
\* when a read found the slot unset; a set on a slot that has a value
\* changes nothing and does not panic
C4_SlotsWriteOnce ==
  [][\A s \in Slots :
       /\ OnceGet(s) # Unset => OnceGet(s)' = OnceGet(s)
       /\ (OnceGet(s) = Unset /\ OnceGet(s)' # Unset) =>
            /\ reg[s].state = "running"
            /\ reg[s].how = "set" =>
                 /\ pc[reg[s].by] = "set_init"
                 /\ OnceGet(s)' = local[reg[s].by].arg
                 /\ local'[reg[s].by].set = "Ok"
            /\ reg[s].how = "get_or_init" => OnceGet(s)' = Fallback(s)
       /\ \A t \in Threads :
            (local'[t] # local[t] /\ local'[t].slot = s /\ local'[t].set = "Err") =>
              /\ OnceGet(s) # Unset
              /\ reg' = reg
              /\ pc'[t] = "idle"
              /\ process' = process
    ]_vars

\* C4 witness: a slot holds the value of a first set, and a later set of
\* another value on it has returned without effect
C4_Witness ==
  \E s \in Slots, t, u \in Threads :
    /\ local[t].slot = s /\ local[t].set = "Ok"
    /\ local[u].slot = s /\ local[u].set = "Err"
    /\ local[u].arg # local[t].arg
    /\ OnceGet(s) = local[t].arg

\* where a thread is between the lock and the end of a failing call
InPrinter == {"message_on_none", "print_error", "print_caused_by", "print",
              "message_style", "writeln", "for_each", "exit", "exited"}

\* C5: under every interleaving of first sets and default resolutions of a
\* slot exactly one value wins: a set that returned Ok stored its value, at
\* most one did, a set that lost left a value behind and did not panic, and
\* what a reader holds is the slot's one complete value, never a mixture
C5_OneWinner ==
  /\ \A s \in Slots :
       /\ OnceGet(s) \in {Unset, Fallback(s)} \cup {HostValue(s, k) : k \in 1..MaxVal}
       /\ reg[s].state = "running" =>
            /\ reg[s].by \in Threads
            /\ pc[reg[s].by] \in InPrinter \cup {"set_init"}
            /\ pc[reg[s].by] = "set_init" => local[reg[s].by].slot = s
       /\ (reg[s].state = "complete" /\ reg[s].how = "get_or_init") =>
            reg[s].val = Fallback(s)
  /\ \A t \in Threads :
       /\ local[t].set = "Ok" => OnceGet(local[t].slot) = local[t].arg
       /\ local[t].set = "Err" => OnceGet(local[t].slot) # Unset /\ pc[t] = "idle"
       /\ \A u \in Threads \ {t} :
            (local[t].set = "Ok" /\ local[u].set = "Ok") => local[t].slot # local[u].slot
       /\ pc[t] \in {"print", "message_style", "writeln"} =>
            local[t].label = OnceGet(LabelOf(local[t].i))
       /\ pc[t] \in {"message_style", "writeln"} => local[t].sep = OnceGet("SEP")
       /\ pc[t] = "writeln" => local[t].style = OnceGet("MESSAGE_STYLE").style
       /\ (pc[t] \in InPrinter \ {"message_on_none"} /\ self[t].kind = "None") =>
            local[t].message = OnceGet("MESSAGE_ON_NONE").value

\* C5 witness: one thread is inside the first set of ERROR while another,
\* on a failure path, is about to resolve the same slot
C5_Witness ==
  \E t, u \in Threads :
    /\ t # u
    /\ reg["ERROR"].state = "running"
    /\ reg["ERROR"].by = t
    /\ pc[t] = "set_init"
    /\ pc[u] = "print_error"

\* C6: the lines of one failing call are contiguous on the error stream: no
\* line of another writer lies between two of them
C6_LinesContiguous ==
  \A t \in Threads :
    \A i, j \in 1..Len(err) :
      (i < j /\ err[i].by = t /\ err[i].src = "eoe"
             /\ err[j].by = t /\ err[j].src = "eoe") =>
        \A k \in i..j : err[k].by = t /\ err[k].src = "eoe"

\* C6 witness: two threads have written, one of them the three lines of a
\* failing call
C6_Witness ==
  \E t, u \in Threads :
    /\ t # u
    /\ Len(EoeLines(t)) = 3
    /\ \E i \in 1..Len(err) : err[i].by = u /\ err[i].src = "host"
    /\ pc[t] = "exited"

\* C7: when a write of a diagnostic line fails no further line is written,
\* the call does not return and the whole process ends, whichever thread
\* made the call
C7_WriteFailureEndsProcess ==
  \A t \in Threads :
    (pc[t] = "panicked" /\ self[t].kind \in {"Err", "None"}) =>
      /\ process.status # "running"
      /\ ret[t] = NoValue

\* C8: every end of the process that exit_on_error / quit_on_error causes
\* has exit status 1
C8_ExitStatusOne ==
  (process.status # "running" /\ self[process.by].kind \in {"Err", "None"}) =>
    process.code = 1

\* C9: quit_on_error is exit_on_error: the only step a thread takes in
\* quit_on_error, for a Result and for an Option alike, leaves it at the
\* entry of exit_on_error with the same receiver and changes neither the
\* registry, the error stream, its lock, the returned value nor the
\* process, so that what follows is an exit_on_error call on that receiver
C9_QuitIsExit ==
  [][\A t \in Threads :
       (pc[t] = "quit_on_error" /\ pc'[t] # pc[t]) =>
         /\ pc'[t] = "exit_on_error"
         /\ self'[t] = self[t]
         /\ local'[t] = local[t]
         /\ UNCHANGED <<reg, lock, err, ret, process>>
    ]_vars

\* C9 witness: a quit_on_error call on a chain of two messages has printed
\* both lines and exited with status 1
C9_Witness ==
  \E t \in Threads :
    /\ local[t].via = "quit_on_error"
    /\ self[t].kind = "Err"
    /\ Len(self[t].chain) = 2
    /\ Len(EoeLines(t)) = 2
    /\ ExitedBy(t)

\* C10 as claimed: when exit is invoked the calling thread no longer holds
\* the lock of the error stream
C10_LockReleasedBeforeExit ==
  \A t \in Threads : pc[t] = "exited" => lock # t

\* C10 as amended: from taking the lock to the call of exit(1), and when the
\* process exits, the calling thread holds the lock of the error stream
C10_LockHeldAtExit ==
  \A t \in Threads :
    /\ pc[t] \in InPrinter => lock = t
    /\ ExitedBy(t) => lock = t

\* C10 witness: a call on None has printed its line and called exit while
\* holding the lock
C10_Witness ==
  \E t \in Threads :
    /\ self[t].kind = "None"
    /\ ExitedBy(t)
    /\ Len(err) = 1
    /\ lock = t

=============================================================================
